---- MODULE Spec2Model ----
(***************************************************************************)
(* Model of terminal-char-guruguru (src/src/main.rs): the perimeter        *)
(* PositionGenerator, the cyclic CharGen, and the two threads (key event   *)
(* loop in main, animation thread) that talk over one mpsc channel.        *)
(***************************************************************************)
EXTENDS Integers, Sequences, FiniteSets, TLC

VARIABLES
    pg,             \* PositionGenerator {width, height, x, y, direction}
    overflowChecks, \* TRUE: build panics on u16 overflow; FALSE: it wraps
    pgPanic,        \* a PositionGenerator::next call has panicked
    underflowed,    \* ghost: some u16 subtraction in next went below 0
    emitted,        \* ghost: the items returned by pg.next(), in order
    cg,             \* CharGen {position, chars}
    cgOut,          \* ghost: items returned by cg.next() (until an update)
    cgUpdated,      \* ghost: cg.update has been called
    cgLastOp,       \* ghost: the CharGen operation called last
    cgPrevPos,      \* ghost: position before the last operation
    cgPrevLen,      \* ghost: chars.len() before the last operation
    cgArg,          \* ghost: argument of the last new/update
    termW,          \* terminal::size() columns (fixed for the run)
    termH,          \* terminal::size() rows
    chan,           \* the mpsc channel: State values sent and not received
    msg,            \* main: the typed message buffer (Vec<char>)
    key,            \* main: code of the key event being handled
    ctlPc,          \* main: position in the key event loop
    engPc,          \* animation thread: position in its loop
    isFirst,        \* animation thread: is_first
    keyBudget,      \* the number of key events the user makes in the run
    keysRead,       \* ghost: key events read so far
    firstKey,       \* ghost: code of the first key event
    msgBefore,      \* ghost: msg when the current key event was dispatched
    lastNM,         \* ghost: text of the NewMessage sent last
    nmAtResume,     \* ghost: per Resume sent, the NewMessage sent last before
    resumesTaken,   \* ghost: Resume signals the animation thread received
    frameNo,        \* ghost: frames rendered while the first key event is
                    \* the only one read (exact below MaxFrames)
    lastFrame,      \* ghost: the frame rendered last
    stream,         \* ghost: where the signals sent so far stand in the
                    \* pattern (Pause (NewMessage Resume)?)* Pause Stop
    sendFailed,     \* ghost: some tx.send returned Err (receiver gone)
    pauseLag,       \* ghost: frames rendered since the Pause sent last, while
                    \* the animation thread has not been at rx.recv(); else -1
    dropped         \* ghost: try_recv has taken a value other than Pause

pgVars == <<pg, overflowChecks, pgPanic, underflowed, emitted>>

cgVars == <<cg, cgOut, cgUpdated, cgLastOp, cgPrevPos, cgPrevLen, cgArg>>

ctlVars == <<termW, termH, msg, key, ctlPc, keyBudget, keysRead, firstKey,
             msgBefore, lastNM, nmAtResume>>

engVars == <<engPc, isFirst, resumesTaken, frameNo, lastFrame>>

obsVars == <<stream, sendFailed, pauseLag, dropped>>

sysVars == <<chan, ctlVars, engVars, obsVars>>

vars == <<pgVars, cgVars, sysVars>>

\* ------------------------------------------------------------------ bounds
MaxDim == 4

MaxCalls == 8 * MaxDim

MaxLen == 6

MaxNexts == 2 * MaxLen + 1

Alphabet == {"a", "b"}

MaxKeys == 3

E2EKeys == 2

MaxFrames == 410

MaxTermW == 6

\* the non-empty texts of at most MaxLen characters
Texts == UNION {[1..n -> Alphabet] : n \in 1..MaxLen}

\* --------------------------------------------------------------- u16 values
U16 == 65536

Overflows(v) == v < 0 \/ v >= U16

Wrap(v) == v % U16

\* ------------------------------------------------------- PositionGenerator
PGNew(width, height) ==
    [width |-> width, height |-> height, x |-> 0, y |-> 0, direction |-> "Right"]

\* the match of PositionGenerator::next over unbounded integers
PGStepTurnOnly(p) ==
    CASE p.direction = "Right" ->
            IF p.x + 1 < p.width THEN [p EXCEPT !.x = p.x + 1]
            ELSE [p EXCEPT !.direction = "Down"]
      [] p.direction = "Down" ->
            IF p.y + 1 < p.height THEN [p EXCEPT !.y = p.y + 1]
            ELSE [p EXCEPT !.direction = "Left"]
      [] p.direction = "Left" ->
            IF p.x # 0 THEN [p EXCEPT !.x = p.x - 1]
            ELSE [p EXCEPT !.direction = "Up"]
      [] p.direction = "Up" ->
            IF p.y # 0 THEN [p EXCEPT !.y = p.y - 1]
            ELSE [p EXCEPT !.direction = "Right"]

PGStep(p) ==
    CASE p.direction = "Right" ->
            IF p.x + 1 < p.width THEN [p EXCEPT !.x = p.x + 1]
            ELSE [p EXCEPT !.y = p.y + 1, !.direction = "Down"]
      [] p.direction = "Down" ->
            IF p.y + 1 < p.height THEN [p EXCEPT !.y = p.y + 1]
            ELSE [p EXCEPT !.x = p.x - 1, !.direction = "Left"]
      [] p.direction = "Left" ->
            IF p.x # 0 THEN [p EXCEPT !.x = p.x - 1]
            ELSE [p EXCEPT !.y = p.y - 1, !.direction = "Up"]
      [] p.direction = "Up" ->
            IF p.y # 0 THEN [p EXCEPT !.y = p.y - 1]
            ELSE [p EXCEPT !.x = p.x + 1, !.direction = "Right"]

PGNextReturnsNew(p) ==
    LET r == PGStep(p)
    IN  [item     |-> <<Wrap(r.x), Wrap(r.y)>>,
         pg       |-> [r EXCEPT !.x = Wrap(r.x), !.y = Wrap(r.y)],
         overflow |-> Overflows(r.x) \/ Overflows(r.y),
         under    |-> r.x < 0 \/ r.y < 0]

\* one call of next: the item returned, the state left behind, and whether
\* the u16 arithmetic overflowed on the way
PGNext(p) ==
    LET r == PGStep(p)
    IN  [item     |-> <<p.x, p.y>>,
         pg       |-> [r EXCEPT !.x = Wrap(r.x), !.y = Wrap(r.y)],
         overflow |-> Overflows(r.x) \/ Overflows(r.y),
         under    |-> r.x < 0 \/ r.y < 0]


\* ----------------------------------------------------------------- CharGen
HelloLower == <<"h", "e", "l", "l", "o", " ", "w", "o", "r", "l", "d", ".">>

CGNew(chars) == [position |-> 0, chars |-> chars]

CGUpdateReset(c, newmsg) == [position |-> 0, chars |-> newmsg]

\* update: position % 0 (empty newmsg) panics and is guarded by the callers
CGUpdate(c, newmsg) ==
    [position |-> c.position % Len(newmsg), chars |-> newmsg]

CGNextOffByOne(c) ==
    LET size == Len(c.chars)
    IN  [item |-> c.chars[((c.position + 1) % size) + 1],
         cg   |-> [c EXCEPT !.position = (c.position + 1) % size]]

\* next: chars[position] (0-based), then position = (position + 1) % len
CGNext(c) ==
    LET size == Len(c.chars)
    IN  [item |-> c.chars[c.position + 1],
         cg   |-> [c EXCEPT !.position = (c.position + 1) % size]]

\* the CharGen of a run that has not made one yet
CGIdle ==
    /\ cg = CGNew(HelloLower)
    /\ cgOut = <<>>
    /\ cgUpdated = FALSE
    /\ cgLastOp = "new"
    /\ cgPrevPos = 0
    /\ cgPrevLen = 0
    /\ cgArg = HelloLower


\* ------------------------------------------------------ signals and keys
HelloWorld == <<"H", "e", "l", "l", "o", " ", "W", "o", "r", "l", "d", " ">>

Pause == [sig |-> "Pause", text |-> <<>>]

Resume == [sig |-> "Resume", text |-> <<>>]

Stop == [sig |-> "Stop", text |-> <<>>]

NewMessage(text) == [sig |-> "NewMessage", text |-> text]

\* KeyCode::Char(ch)
KeyChars == {"a", "b"}

\* a KeyCode of the catch-all branch, named by its Debug output
OtherKeys == {"Up"}

Keys == KeyChars \cup OtherKeys \cup {"Enter", "Esc", "Backspace"}

\* format!("{:?}", code).chars().collect()
DebugRepr(code) == IF code = "Up" THEN <<"U", "p">> ELSE <<"?">>

NoFrame == [x |-> 0, y |-> 0, ch |-> "", text |-> <<>>, resume |-> 0]

\* the state of main and the animation thread right after thread::spawn
SysStart(w, h, n, f) ==
    /\ termW = w
    /\ termH = h
    /\ chan = <<>>
    /\ msg = <<>>
    /\ key = "none"
    /\ ctlPc = "read"
    /\ engPc = "poll"
    /\ isFirst = TRUE
    /\ keyBudget = n
    /\ keysRead = 0
    /\ firstKey = "none"
    /\ msgBefore = <<>>
    /\ lastNM = <<>>
    /\ nmAtResume = <<>>
    /\ resumesTaken = 0
    /\ frameNo = f
    /\ lastFrame = NoFrame
    /\ stream = "idle"
    /\ sendFailed = FALSE
    /\ pauseLag = -1
    /\ dropped = FALSE

\* the threads of a run that has not started them
SysIdle == SysStart(80, 24, 0, 0)

\* ----------------------------------------------- PositionGenerator harness
PGInit ==
    /\ pg \in {PGNew(w, h) : w \in 1..MaxDim, h \in 1..MaxDim}
    /\ overflowChecks \in BOOLEAN
    /\ pgPanic = FALSE
    /\ underflowed = FALSE
    /\ emitted = <<>>
    /\ CGIdle
    /\ SysIdle

\* pg.next() returns Some((prevx, prevy))
PGCallOk ==
    /\ ~pgPanic
    /\ Len(emitted) < MaxCalls
    /\ LET r == PGNext(pg)
       IN  /\ ~(r.overflow /\ overflowChecks)
           /\ pg' = r.pg
           /\ underflowed' = (underflowed \/ r.under)
           /\ emitted' = Append(emitted, r.item)
    /\ UNCHANGED <<overflowChecks, pgPanic>>
    /\ UNCHANGED <<cgVars, sysVars>>

\* pg.next() panics with "attempt to subtract with overflow"
PGCallPanic ==
    /\ ~pgPanic
    /\ Len(emitted) < MaxCalls
    /\ LET r == PGNext(pg)
       IN  /\ r.overflow /\ overflowChecks
           /\ underflowed' = (underflowed \/ r.under)
    /\ pgPanic' = TRUE
    /\ UNCHANGED <<pg, overflowChecks, emitted>>
    /\ UNCHANGED <<cgVars, sysVars>>

PGNextAction == PGCallOk \/ PGCallPanic

SpecPG == PGInit /\ [][PGNextAction]_vars


\* --------------------------------------------------------- CharGen harness
PGIdle ==
    /\ pg = PGNew(MaxDim, MaxDim)
    /\ overflowChecks = FALSE
    /\ pgPanic = FALSE
    /\ underflowed = FALSE
    /\ emitted = <<>>

CGInit ==
    /\ \E t \in Texts :
           /\ cg = CGNew(t)
           /\ cgArg = t
    /\ cgOut = <<>>
    /\ cgUpdated = FALSE
    /\ cgLastOp = "new"
    /\ cgPrevPos = 0
    /\ cgPrevLen = 0
    /\ PGIdle
    /\ SysIdle

\* cg.next(); the returned items are logged until the first update
CGCallNext ==
    /\ cgUpdated \/ Len(cgOut) < MaxNexts
    /\ LET r == CGNext(cg)
       IN  /\ cg' = r.cg
           /\ cgOut' = IF cgUpdated THEN cgOut ELSE Append(cgOut, r.item)
    /\ cgLastOp' = "next"
    /\ cgPrevPos' = cg.position
    /\ cgPrevLen' = Len(cg.chars)
    /\ UNCHANGED <<cgUpdated, cgArg>>
    /\ UNCHANGED <<pgVars, sysVars>>

\* cg.update(t) with a non-empty t
CGCallUpdate(t) ==
    /\ cg' = CGUpdate(cg, t)
    /\ cgOut' = <<>>
    /\ cgUpdated' = TRUE
    /\ cgLastOp' = "update"
    /\ cgPrevPos' = cg.position
    /\ cgPrevLen' = Len(cg.chars)
    /\ cgArg' = t
    /\ UNCHANGED <<pgVars, sysVars>>

CGNextAction == CGCallNext \/ \E t \in Texts : CGCallUpdate(t)

SpecCG == CGInit /\ [][CGNextAction]_vars


\* ------------------------------------------------------------ the channel
\* the receiver is dropped when the animation thread's closure ends
EngineExited == engPc \in {"done", "panicked", "failed"}

\* main has returned or panicked: the process and all its threads are gone
ProcessEnded == ctlPc \in {"exited", "panicked", "failed"}

\* tx.send(m): queued, or Err (ignored) once the receiver is gone
Send(m) == IF EngineExited THEN chan ELSE Append(chan, m)

\* the pattern (Pause (NewMessage Resume)?)* Pause Stop, read one signal
\* at a time
StreamStep(st, sig) ==
    CASE st = "idle" /\ sig = "Pause" -> "paused"
      [] st = "paused" /\ sig = "Pause" -> "paused"
      [] st = "paused" /\ sig = "NewMessage" -> "message"
      [] st = "paused" /\ sig = "Stop" -> "stopped"
      [] st = "message" /\ sig = "Resume" -> "idle"
      [] OTHER -> "bad"

\* ------------------------------------------------- main: the key event loop
\* (width - 2) as usize, on the u16 width
InnerWidth(width) ==
    [value |-> Wrap(width - 2), overflow |-> Overflows(width - 2)]

\* KeyCode::Char(ch)
PushChar(m, ch, inner) ==
    IF Len(m) + 1 < inner THEN Append(m, ch) ELSE m

\* KeyCode::Backspace: msg.pop()
PopChar(m) == IF m = <<>> THEN m ELSE SubSeq(m, 1, Len(m) - 1)

\* the catch-all branch
PushOther(m, newchars, inner) ==
    IF Len(m) + Len(newchars) < inner THEN m \o newchars ELSE m

EnterTextKeepEmpty(m) == m

\* KeyCode::Enter: the text to send
EnterText(m) == IF m = <<>> THEN m \o HelloWorld ELSE m

\* read() returns Event::Key
CtlKeyEvent(k) ==
    /\ ctlPc = "read"
    /\ keysRead < keyBudget
    /\ key' = k
    /\ keysRead' = keysRead + 1
    /\ firstKey' = IF keysRead = 0 THEN k ELSE firstKey
    /\ ctlPc' = "sendPause"
    /\ frameNo' = IF keysRead = 1 THEN 0 ELSE frameNo
    /\ UNCHANGED <<termW, termH, msg, keyBudget, msgBefore, lastNM,
                   nmAtResume>>
    /\ UNCHANGED <<chan, engPc, isFirst, resumesTaken, lastFrame>>
    /\ UNCHANGED <<obsVars, pgVars, cgVars>>

CtlSendPauseUnwrap ==
    /\ ctlPc = "sendPause"
    /\ chan' = Send(Pause)
    /\ ctlPc' = IF EngineExited THEN "panicked" ELSE "dispatch"
    /\ stream' = StreamStep(stream, "Pause")
    /\ sendFailed' = (sendFailed \/ EngineExited)
    /\ pauseLag' = IF engPc = "wait" \/ EngineExited THEN -1
                   ELSE IF pauseLag >= 0 THEN pauseLag ELSE 0
    /\ UNCHANGED dropped
    /\ UNCHANGED <<termW, termH, msg, key, keyBudget, keysRead, firstKey,
                   msgBefore, lastNM, nmAtResume>>
    /\ UNCHANGED <<engVars, pgVars, cgVars>>

CtlSendPauseSkipped ==
    /\ ctlPc = "sendPause"
    /\ ctlPc' = "dispatch"
    /\ UNCHANGED <<termW, termH, msg, key, keyBudget, keysRead, firstKey,
                   msgBefore, lastNM, nmAtResume>>
    /\ UNCHANGED <<chan, engVars, obsVars, pgVars, cgVars>>

\* _ = tx.send(State::Pause)
CtlSendPause ==
    /\ ctlPc = "sendPause"
    /\ chan' = Send(Pause)
    /\ ctlPc' = "dispatch"
    /\ stream' = StreamStep(stream, "Pause")
    /\ sendFailed' = (sendFailed \/ EngineExited)
    /\ pauseLag' = IF engPc = "wait" \/ EngineExited THEN -1
                   ELSE IF pauseLag >= 0 THEN pauseLag ELSE 0
    /\ UNCHANGED dropped
    /\ UNCHANGED <<termW, termH, msg, key, keyBudget, keysRead, firstKey,
                   msgBefore, lastNM, nmAtResume>>
    /\ UNCHANGED <<engVars, pgVars, cgVars>>

\* inner_width, then the match on code; the Char, Backspace and catch-all
\* branches fall through to the redraw of the input line
CtlDispatch ==
    /\ ctlPc = "dispatch"
    /\ msgBefore' = msg
    /\ LET iw == InnerWidth(termW)
       IN  IF iw.overflow /\ overflowChecks
           THEN /\ ctlPc' = "panicked"
                /\ msg' = msg
           ELSE CASE key \in KeyChars ->
                       /\ msg' = PushChar(msg, key, iw.value)
                       /\ ctlPc' = "read"
                  [] key = "Enter" ->
                       /\ msg' = EnterText(msg)
                       /\ ctlPc' = "sendNewMessage"
                  [] key = "Esc" ->
                       /\ msg' = msg
                       /\ ctlPc' = "sendStop"
                  [] key = "Backspace" ->
                       /\ msg' = PopChar(msg)
                       /\ ctlPc' = "read"
                  [] OTHER ->
                       /\ msg' = PushOther(msg, DebugRepr(key), iw.value)
                       /\ ctlPc' = "read"
    /\ UNCHANGED <<termW, termH, key, keyBudget, keysRead, firstKey, lastNM,
                   nmAtResume>>
    /\ UNCHANGED <<chan, engVars, obsVars, pgVars, cgVars>>

\* execute!(..)? returns Err and main returns it: the notice of the Esc
\* branch, or the redraw after the Char, Backspace and catch-all branches
CtlDispatchFail ==
    /\ ctlPc = "dispatch"
    /\ key # "Enter"
    /\ msgBefore' = msg
    /\ LET iw == InnerWidth(termW)
       IN  /\ ~(iw.overflow /\ overflowChecks)
           /\ msg' = CASE key \in KeyChars -> PushChar(msg, key, iw.value)
                       [] key = "Esc" -> msg
                       [] key = "Backspace" -> PopChar(msg)
                       [] OTHER -> PushOther(msg, DebugRepr(key), iw.value)
    /\ ctlPc' = "failed"
    /\ UNCHANGED <<termW, termH, key, keyBudget, keysRead, firstKey, lastNM,
                   nmAtResume>>
    /\ UNCHANGED <<chan, engVars, obsVars, pgVars, cgVars>>

\* _ = tx.send(State::NewMessage(newmessage)); msg.clear()
CtlSendNewMessage ==
    /\ ctlPc = "sendNewMessage"
    /\ chan' = Send(NewMessage(msg))
    /\ stream' = StreamStep(stream, "NewMessage")
    /\ sendFailed' = (sendFailed \/ EngineExited)
    /\ UNCHANGED <<pauseLag, dropped>>
    /\ lastNM' = msg
    /\ msg' = <<>>
    /\ ctlPc' = "sendResume"
    /\ UNCHANGED <<termW, termH, key, keyBudget, keysRead, firstKey,
                   msgBefore, nmAtResume>>
    /\ UNCHANGED <<engVars, pgVars, cgVars>>

\* _ = tx.send(State::Resume); continue
CtlSendResume ==
    /\ ctlPc = "sendResume"
    /\ chan' = Send(Resume)
    /\ stream' = StreamStep(stream, "Resume")
    /\ sendFailed' = (sendFailed \/ EngineExited)
    /\ UNCHANGED <<pauseLag, dropped>>
    /\ nmAtResume' = Append(nmAtResume, lastNM)
    /\ ctlPc' = "read"
    /\ UNCHANGED <<termW, termH, msg, key, keyBudget, keysRead, firstKey,
                   msgBefore, lastNM>>
    /\ UNCHANGED <<engVars, pgVars, cgVars>>

CtlSendStopKeepsReading ==
    /\ ctlPc = "sendStop"
    /\ chan' = Send(Stop)
    /\ stream' = StreamStep(stream, "Stop")
    /\ sendFailed' = (sendFailed \/ EngineExited)
    /\ UNCHANGED <<pauseLag, dropped>>
    /\ ctlPc' = "read"
    /\ UNCHANGED <<termW, termH, msg, key, keyBudget, keysRead, firstKey,
                   msgBefore, lastNM, nmAtResume>>
    /\ UNCHANGED <<engVars, pgVars, cgVars>>

\* _ = tx.send(State::Stop)
CtlSendStop ==
    /\ ctlPc = "sendStop"
    /\ chan' = Send(Stop)
    /\ stream' = StreamStep(stream, "Stop")
    /\ sendFailed' = (sendFailed \/ EngineExited)
    /\ UNCHANGED <<pauseLag, dropped>>
    /\ ctlPc' = "join"
    /\ UNCHANGED <<termW, termH, msg, key, keyBudget, keysRead, firstKey,
                   msgBefore, lastNM, nmAtResume>>
    /\ UNCHANGED <<engVars, pgVars, cgVars>>

CtlJoinNoWait ==
    /\ ctlPc = "join"
    /\ ctlPc' = "cleanup"
    /\ UNCHANGED <<termW, termH, msg, key, keyBudget, keysRead, firstKey,
                   msgBefore, lastNM, nmAtResume>>
    /\ UNCHANGED <<chan, engVars, obsVars, pgVars, cgVars>>

\* _ = join_handle.join(); break
CtlJoin ==
    /\ ctlPc = "join"
    /\ EngineExited
    /\ ctlPc' = "cleanup"
    /\ UNCHANGED <<termW, termH, msg, key, keyBudget, keysRead, firstKey,
                   msgBefore, lastNM, nmAtResume>>
    /\ UNCHANGED <<chan, engVars, obsVars, pgVars, cgVars>>

\* clear the screen, show the cursor, disable raw mode, return
CtlCleanup ==
    /\ ctlPc = "cleanup"
    /\ ctlPc' = "exited"
    /\ UNCHANGED <<termW, termH, msg, key, keyBudget, keysRead, firstKey,
                   msgBefore, lastNM, nmAtResume>>
    /\ UNCHANGED <<chan, engVars, obsVars, pgVars, cgVars>>

\* the execute! of the cleanup, or disable_raw_mode, returns Err
CtlCleanupFail ==
    /\ ctlPc = "cleanup"
    /\ ctlPc' = "failed"
    /\ UNCHANGED <<termW, termH, msg, key, keyBudget, keysRead, firstKey,
                   msgBefore, lastNM, nmAtResume>>
    /\ UNCHANGED <<chan, engVars, obsVars, pgVars, cgVars>>

\* ---------------------------------------------------- the animation thread
EngRecvIgnoreNewMessage(m) ==
    /\ cg' = cg
    /\ resumesTaken' = IF m.sig = "Resume" THEN resumesTaken + 1
                       ELSE resumesTaken
    /\ engPc' = CASE m.sig = "Resume" -> "render"
                  [] m.sig = "Stop" -> "done"
                  [] OTHER -> "wait"

EngRecvIgnoreStop(m) ==
    /\ cg' = IF m.sig = "NewMessage" /\ m.text # <<>>
             THEN CGUpdate(cg, m.text) ELSE cg
    /\ resumesTaken' = IF m.sig = "Resume" THEN resumesTaken + 1
                       ELSE resumesTaken
    /\ engPc' = CASE m.sig = "NewMessage" ->
                       IF m.text = <<>> THEN "panicked" ELSE "wait"
                  [] m.sig = "Resume" -> "render"
                  [] OTHER -> "wait"

EngRecvNewMessageStarts(m) ==
    /\ cg' = IF m.sig = "NewMessage" /\ m.text # <<>>
             THEN CGUpdate(cg, m.text) ELSE cg
    /\ resumesTaken' = IF m.sig = "Resume" THEN resumesTaken + 1
                       ELSE resumesTaken
    /\ engPc' = CASE m.sig = "NewMessage" ->
                       IF m.text = <<>> THEN "panicked" ELSE "render"
                  [] m.sig = "Resume" -> "render"
                  [] m.sig = "Stop" -> "done"
                  [] OTHER -> "wait"

\* the match on rx.recv() for the received value m
EngRecv(m) ==
    /\ cg' = IF m.sig = "NewMessage" /\ m.text # <<>>
             THEN CGUpdate(cg, m.text) ELSE cg
    /\ resumesTaken' = IF m.sig = "Resume" THEN resumesTaken + 1
                       ELSE resumesTaken
    /\ engPc' = CASE m.sig = "NewMessage" ->
                       IF m.text = <<>> THEN "panicked" ELSE "wait"
                  [] m.sig = "Resume" -> "render"
                  [] m.sig = "Stop" -> "done"
                  [] OTHER -> "wait"

EngPollNoFirstWait ==
    /\ engPc = "poll"
    /\ ~ProcessEnded
    /\ IF chan = <<>>
       THEN /\ engPc' = "render"
            /\ chan' = chan
       ELSE /\ engPc' = IF Head(chan).sig = "Pause" THEN "wait" ELSE "render"
            /\ chan' = Tail(chan)
    /\ isFirst' = FALSE
    /\ pauseLag' = IF engPc' = "wait" THEN -1 ELSE pauseLag
    /\ dropped' = (dropped \/ (~isFirst /\ chan # <<>>
                                /\ Head(chan).sig # "Pause"))
    /\ UNCHANGED <<stream, sendFailed>>
    /\ UNCHANGED <<resumesTaken, frameNo, lastFrame>>
    /\ UNCHANGED <<ctlVars, pgVars, cgVars>>

EngPollDropsPause ==
    /\ engPc = "poll"
    /\ ~ProcessEnded
    /\ IF isFirst
       THEN /\ engPc' = "wait"
            /\ chan' = chan
       ELSE IF chan = <<>>
       THEN /\ engPc' = "render"
            /\ chan' = chan
       ELSE /\ engPc' = IF Head(chan).sig = "Resume" THEN "wait" ELSE "render"
            /\ chan' = Tail(chan)
    /\ isFirst' = FALSE
    /\ pauseLag' = IF engPc' = "wait" THEN -1 ELSE pauseLag
    /\ dropped' = (dropped \/ (~isFirst /\ chan # <<>>
                                /\ Head(chan).sig # "Pause"))
    /\ UNCHANGED <<stream, sendFailed>>
    /\ UNCHANGED <<resumesTaken, frameNo, lastFrame>>
    /\ UNCHANGED <<ctlVars, pgVars, cgVars>>

\* if is_first || should_pause(&rx): try_recv takes whatever is first in the
\* channel and only Ok(State::Pause) counts
EngPoll ==
    /\ engPc = "poll"
    /\ ~ProcessEnded
    /\ IF isFirst
       THEN /\ engPc' = "wait"
            /\ chan' = chan
       ELSE IF chan = <<>>
       THEN /\ engPc' = "render"
            /\ chan' = chan
       ELSE /\ engPc' = IF Head(chan).sig = "Pause" THEN "wait" ELSE "render"
            /\ chan' = Tail(chan)
    /\ isFirst' = FALSE
    /\ pauseLag' = IF engPc' = "wait" THEN -1 ELSE pauseLag
    /\ dropped' = (dropped \/ (~isFirst /\ chan # <<>>
                                /\ Head(chan).sig # "Pause"))
    /\ UNCHANGED <<stream, sendFailed>>
    /\ UNCHANGED <<resumesTaken, frameNo, lastFrame>>
    /\ UNCHANGED <<ctlVars, pgVars, cgVars>>

\* the inner loop: rx.recv() blocks until a value is there
EngWait ==
    /\ engPc = "wait"
    /\ ~ProcessEnded
    /\ chan # <<>>
    /\ EngRecv(Head(chan))
    /\ chan' = Tail(chan)
    /\ UNCHANGED <<isFirst, frameNo, lastFrame>>
    /\ UNCHANGED <<cgOut, cgUpdated, cgLastOp, cgPrevPos, cgPrevLen, cgArg>>
    /\ UNCHANGED <<ctlVars, obsVars, pgVars>>

\* pg.next(), cg.next(), execute!(Hide, MoveTo(x, y), Print(ch)), sleep
EngRender ==
    /\ engPc = "render"
    /\ ~ProcessEnded
    /\ LET p == PGNext(pg)
           c == CGNext(cg)
       IN  IF p.overflow /\ overflowChecks
           THEN /\ engPc' = "panicked"
                /\ pgPanic' = TRUE
                /\ UNCHANGED <<pg, cg, frameNo, lastFrame, pauseLag>>
           ELSE /\ engPc' = "poll"
                /\ pg' = p.pg
                /\ cg' = c.cg
                /\ pgPanic' = pgPanic
                /\ frameNo' = IF keysRead = 1 /\ frameNo < MaxFrames
                              THEN frameNo + 1 ELSE frameNo
                /\ lastFrame' = [x |-> p.item[1], y |-> p.item[2],
                                 ch |-> c.item, text |-> cg.chars,
                                 resume |-> resumesTaken]
                /\ pauseLag' = CASE pauseLag < 0 -> pauseLag
                                  [] pauseLag < 2 -> pauseLag + 1
                                  [] OTHER -> pauseLag
    /\ UNCHANGED <<isFirst, resumesTaken, stream, sendFailed, dropped>>
    /\ UNCHANGED <<overflowChecks, underflowed, emitted>>
    /\ UNCHANGED <<cgOut, cgUpdated, cgLastOp, cgPrevPos, cgPrevLen, cgArg>>
    /\ UNCHANGED <<chan, ctlVars>>

\* execute! returns Err and the ? ends the thread; cg.next() has run only
\* if the failure came after the first two commands
EngRenderFail ==
    /\ engPc = "render"
    /\ ~ProcessEnded
    /\ LET p == PGNext(pg)
       IN  /\ ~(p.overflow /\ overflowChecks)
           /\ pg' = p.pg
    /\ cg' \in {cg, CGNext(cg).cg}
    /\ engPc' = "failed"
    /\ UNCHANGED <<isFirst, resumesTaken, frameNo, lastFrame, obsVars>>
    /\ UNCHANGED <<overflowChecks, pgPanic, underflowed, emitted>>
    /\ UNCHANGED <<cgOut, cgUpdated, cgLastOp, cgPrevPos, cgPrevLen, cgArg>>
    /\ UNCHANGED <<chan, ctlVars>>

\* ------------------------------------------------------------ the program
TermSizes == {<<2, 2>>, <<5, 3>>}

Init ==
    /\ \E s \in TermSizes :
           /\ SysStart(s[1], s[2], MaxKeys, 0)
           /\ pg = PGNew(s[1], s[2])
    /\ overflowChecks \in BOOLEAN
    /\ pgPanic = FALSE
    /\ underflowed = FALSE
    /\ emitted = <<>>
    /\ CGIdle

CtlNext ==
    \/ \E k \in Keys : CtlKeyEvent(k)
    \/ CtlSendPause
    \/ CtlDispatch
    \/ CtlDispatchFail
    \/ CtlSendNewMessage
    \/ CtlSendResume
    \/ CtlSendStop

Next ==
    \/ CtlNext
    \/ CtlJoin
    \/ CtlCleanup
    \/ CtlCleanupFail
    \/ EngPoll
    \/ EngWait
    \/ EngRender
    \/ EngRenderFail

Spec == Init /\ [][Next]_vars

\* Both threads are scheduled by the operating system: a thread that can
\* take its next step eventually takes it.  Nothing obliges the user to
\* press a key and nothing obliges a terminal write to fail.
Fairness ==
    /\ WF_vars(CtlSendPause)
    /\ WF_vars(CtlDispatch)
    /\ WF_vars(CtlSendNewMessage)
    /\ WF_vars(CtlSendResume)
    /\ WF_vars(CtlSendStop)
    /\ WF_vars(CtlJoin)
    /\ WF_vars(CtlCleanup)
    /\ WF_vars(EngPoll)
    /\ WF_vars(EngWait)
    /\ WF_vars(EngRender)

\* one terminal, wide enough for the input line to hold two characters
FairSize == <<5, 3>>

\* no u16 operation overflows on this terminal, so the two builds behave
\* alike and one is taken; the ghost frame counter starts at its cap
InitFair ==
    /\ SysStart(FairSize[1], FairSize[2], MaxKeys, MaxFrames)
    /\ pg = PGNew(FairSize[1], FairSize[2])
    /\ overflowChecks = TRUE
    /\ pgPanic = FALSE
    /\ underflowed = FALSE
    /\ emitted = <<>>
    /\ CGIdle

\* the two characters take the same branch of the match: one of them is
\* enough here
FairKeys == Keys \ {"b"}

NextFair ==
    \/ \E k \in FairKeys : CtlKeyEvent(k)
    \/ CtlSendPause
    \/ CtlDispatch
    \/ CtlDispatchFail
    \/ CtlSendNewMessage
    \/ CtlSendResume
    \/ CtlSendStop
    \/ CtlJoin
    \/ CtlCleanup
    \/ CtlCleanupFail
    \/ EngPoll
    \/ EngWait
    \/ EngRender
    \/ EngRenderFail

SpecFair == InitFair /\ [][NextFair]_vars /\ Fairness

\* the 80 x 24 terminal of the end-to-end scenario
InitE2E ==
    /\ SysStart(80, 24, E2EKeys, 0)
    /\ pg = PGNew(80, 24)
    /\ overflowChecks \in BOOLEAN
    /\ pgPanic = FALSE
    /\ underflowed = FALSE
    /\ emitted = <<>>
    /\ CGIdle

SpecE2E == InitE2E /\ [][Next]_vars

\* main alone, on terminals from one column up: the animation thread is
\* never scheduled
InitInput ==
    /\ \E w \in 1..MaxTermW :
           /\ SysStart(w, 3, MaxKeys, 0)
           /\ pg = PGNew(w, 3)
    /\ overflowChecks \in BOOLEAN
    /\ pgPanic = FALSE
    /\ underflowed = FALSE
    /\ emitted = <<>>
    /\ CGIdle

SpecInput == InitInput /\ [][CtlNext]_vars

\* ------------------------------------------------ PositionGenerator claims
Period(w, h) == IF w = 1 \/ h = 1 THEN 1 ELSE 2 * (w + h - 2)

InRect(c, w, h) == c[1] >= 0 /\ c[1] < w /\ c[2] >= 0 /\ c[2] < h

OnBorder(c, w, h) == c[1] = 0 \/ c[1] = w - 1 \/ c[2] = 0 \/ c[2] = h - 1

BorderCells(w, h) ==
    {c \in (0..(w - 1)) \X (0..(h - 1)) : OnBorder(c, w, h)}

\* the k-th cell (k = 0, 1, ...) of the clockwise walk from (0,0): top row
\* left to right, right column downward, bottom row right to left, left
\* column upward
Clockwise(w, h, k) ==
    IF k < w THEN <<k, 0>>
    ELSE IF k < w + h - 1 THEN <<w - 1, k - (w - 1)>>
    ELSE IF k < 2 * w + h - 2 THEN <<(w - 1) - (k - (w + h - 2)), h - 1>>
    ELSE <<0, (h - 1) - (k - (2 * w + h - 3))>>

Abs(n) == IF n < 0 THEN -n ELSE n

Adjacent(c, d) == Abs(c[1] - d[1]) + Abs(c[2] - d[2]) = 1

\* C1: every position next has emitted is inside the width x height
\* rectangle and on its boundary, for every width >= 1 and height >= 1.
C1_EmittedOnBorder ==
    \A i \in 1..Len(emitted) :
        /\ InRect(emitted[i], pg.width, pg.height)
        /\ OnBorder(emitted[i], pg.width, pg.height)

\* C2: the emitted sequence is periodic from its first element with period
\* 2*(width+height-2), or 1 when width = 1 or height = 1: the item emitted
\* after one period is (0,0) again and emitted[i + period] = emitted[i].
C2_Periodic ==
    LET P == Period(pg.width, pg.height)
    IN  /\ Len(emitted) > P => emitted[P + 1] = <<0, 0>>
        /\ \A i \in 1..Len(emitted) :
               i + P <= Len(emitted) => emitted[i + P] = emitted[i]

\* C3: with width = 1 or height = 1 no call of next takes x or y below 0
\* and none panics; with width = 1 and height = 1 the cursor stays at (0,0)
\* and every emitted position is (0,0).
C3_DegenerateSafe ==
    /\ (pg.width = 1 \/ pg.height = 1) => ~underflowed /\ ~pgPanic
    /\ (pg.width = 1 /\ pg.height = 1) =>
           /\ pg.x = 0 /\ pg.y = 0
           /\ \A i \in 1..Len(emitted) : emitted[i] = <<0, 0>>

\* C4: for width >= 2 and height >= 2 the first 2*(width+height-2) emitted
\* positions are the border cells in clockwise order from (0,0), each border
\* cell exactly once, consecutive cells adjacent.
C4_ClockwiseLap ==
    (pg.width >= 2 /\ pg.height >= 2) =>
        LET P == Period(pg.width, pg.height)
            N == IF Len(emitted) < P THEN Len(emitted) ELSE P
        IN  /\ \A i \in 1..N :
                   emitted[i] = Clockwise(pg.width, pg.height, i - 1)
            /\ \A i \in 1..N : \A j \in 1..N :
                   i # j => emitted[i] # emitted[j]
            /\ \A i \in 1..N : i < N => Adjacent(emitted[i], emitted[i + 1])
            /\ Len(emitted) >= P =>
                   {emitted[i] : i \in 1..P} = BorderCells(pg.width, pg.height)

\* a 3 x 4 generator has just completed its first lap
C4_Witness ==
    /\ pg.width = 3 /\ pg.height = 4
    /\ Len(emitted) = Period(3, 4)
    /\ emitted[Len(emitted)] = <<0, 1>>

\* ---------------------------------------------------------- CharGen claims
\* C5: a CharGen built by new(s) with s of length L >= 1 returns s[0],
\* s[1], ..., s[L-1] on its first L calls of next, and s[i mod L] on the
\* i-th call for every i.
C5_CyclesThroughText ==
    ~cgUpdated =>
        \A i \in 1..Len(cgOut) :
            cgOut[i] = cgArg[((i - 1) % Len(cgArg)) + 1]

\* next has been called on new("abb") for more than two periods
C5_Witness ==
    /\ ~cgUpdated
    /\ cgArg = <<"a", "b", "b">>
    /\ Len(cgOut) = 7

\* C6: update(t) with non-empty t replaces the characters with t and sets
\* position to (old position) mod length(t), not to 0; position stays below
\* the number of characters after every operation.
C6_UpdateKeepsPhase ==
    /\ cgLastOp = "update" =>
           /\ cg.chars = cgArg
           /\ cg.position = cgPrevPos % Len(cgArg)
    /\ cg.position < Len(cg.chars)

\* position 5 of a 6-character text, updated to a 3-character text, is 2
C6_Witness ==
    /\ cgLastOp = "update"
    /\ cgPrevPos = 5 /\ cgPrevLen = 6
    /\ Len(cg.chars) = 3
    /\ cg.position = 2

\* ----------------------------------------------------- two-thread claims
Chars(text) == {text[i] : i \in 1..Len(text)}

\* C7: every NewMessage the key loop sends carries a non-empty text, the
\* 12-character "Hello World " when Enter finds the buffer empty, so the
\* animation thread never calls update with an empty text.
C7_NewMessageNonEmpty ==
    /\ \A i \in 1..Len(chan) :
           chan[i].sig = "NewMessage" => chan[i].text # <<>>
    /\ ctlPc = "sendResume" =>
           /\ lastNM # <<>>
           /\ msgBefore = <<>> => lastNM = HelloWorld /\ Len(lastNM) = 12
    /\ engPc = "panicked" => pgPanic
    /\ cg.chars # <<>>

\* Enter on an empty buffer has queued NewMessage("Hello World ")
C7_Witness ==
    /\ ctlPc = "sendResume"
    /\ key = "Enter"
    /\ msgBefore = <<>>
    /\ \E i \in 1..Len(chan) : chan[i] = NewMessage(HelloWorld)

\* C8: a NewMessage sent between a Pause and a Resume is applied to CharGen
\* before the Resume takes effect: while the animation thread runs after
\* its j-th Resume, CharGen holds the text of the NewMessage sent last
\* before that Resume, and every frame shows a character of that text.
C8_NewMessageBeforeResume ==
    /\ (engPc \in {"render", "poll"} /\ ~isFirst) =>
           /\ resumesTaken >= 1
           /\ resumesTaken <= Len(nmAtResume)
           /\ cg.chars = nmAtResume[resumesTaken]
    /\ lastFrame # NoFrame =>
           /\ lastFrame.resume >= 1
           /\ lastFrame.text = nmAtResume[lastFrame.resume]
           /\ lastFrame.ch \in Chars(nmAtResume[lastFrame.resume])

\* a frame of the second text, sent while frames of the first were shown
C8_Witness ==
    /\ lastFrame.resume = 2
    /\ nmAtResume[1] = HelloWorld
    /\ nmAtResume[2] = <<"a">>
    /\ lastFrame.ch = "a"

\* C9: a printable key appends exactly when the buffer is shorter than
\* W - 3 and otherwise leaves it unchanged; after the key events handled so
\* far the buffer is shorter than W - 2.
C9_BufferClamp ==
    (ctlPc = "read" /\ keysRead > 0) =>
        /\ key \in KeyChars =>
               msg = IF Len(msgBefore) < termW - 3
                     THEN Append(msgBefore, key) ELSE msgBefore
        /\ Len(msg) < termW - 2

\* C10: on an 80 x 24 terminal, when the first key event is Enter on an
\* empty buffer, the k-th frame rendered until the next key event shows
\* character k mod 12 of "Hello World " at the k-th cell of the clockwise
\* perimeter walk from (0,0); the first four are H (0,0), e (1,0), l (2,0),
\* l (3,0).
C10_HelloWorldFrames ==
    (/\ termW = 80 /\ termH = 24
     /\ firstKey = "Enter" /\ keysRead = 1
     /\ frameNo >= 1 /\ frameNo < MaxFrames) =>
        LET k == frameNo - 1
        IN  /\ <<lastFrame.x, lastFrame.y>> =
                   Clockwise(80, 24, k % Period(80, 24))
            /\ lastFrame.ch = HelloWorld[(k % 12) + 1]
            /\ k = 0 => lastFrame.ch = "H" /\ lastFrame.x = 0 /\ lastFrame.y = 0
            /\ k = 1 => lastFrame.ch = "e" /\ lastFrame.x = 1 /\ lastFrame.y = 0
            /\ k = 2 => lastFrame.ch = "l" /\ lastFrame.x = 2 /\ lastFrame.y = 0
            /\ k = 3 => lastFrame.ch = "l" /\ lastFrame.x = 3 /\ lastFrame.y = 0

\* the fourth frame of the scenario: the second l at (3,0)
C10_Witness ==
    /\ termW = 80 /\ termH = 24
    /\ firstKey = "Enter" /\ keysRead = 1
    /\ frameNo = 4
    /\ lastFrame.ch = "l" /\ lastFrame.x = 3 /\ lastFrame.y = 0

\* once main is past the join, a step leaves the animation thread alone
QuietAfterJoin ==
    ctlPc \in {"cleanup", "exited"} =>
        (lastFrame' = lastFrame /\ engPc' = engPc)

\* C12: the final cleanup of main starts only after the animation thread
\* has ended, and the animation thread writes nothing to the terminal once
\* the cleanup has started or raw mode is disabled.
C12_CleanupAfterJoin ==
    /\ [](ctlPc \in {"cleanup", "exited"} => EngineExited)
    /\ [][QuietAfterJoin]_vars

\* animation ran, Esc was pressed, and the cleanup is about to start
C12_Witness ==
    /\ ctlPc = "cleanup"
    /\ engPc = "done"
    /\ lastFrame # NoFrame

\* a failed animation thread stays failed and renders nothing
QuietAfterFailure ==
    engPc = "failed" => (lastFrame' = lastFrame /\ engPc' = engPc)

\* C14: when a terminal write of the animation thread fails, the thread
\* renders no further frame and the process does not end normally (exit
\* code 0).
C14_EngineFailureAborts ==
    /\ [](engPc = "failed" => ctlPc # "exited")
    /\ [][QuietAfterFailure]_vars

\* what a step may do while the animation thread is blocked before a Resume
BlockedStep ==
    /\ (engPc = "poll" /\ isFirst) =>
              /\ lastFrame' = lastFrame
              /\ engPc' \in {"poll", "wait"}
    /\ engPc = "wait" =>
              /\ lastFrame' = lastFrame
              /\ pg' = pg
              /\ IF chan # <<>> /\ chan' = Tail(chan)
                 THEN LET m == Head(chan)
                      IN  CASE m.sig = "NewMessage" ->
                                   /\ engPc' = "wait"
                                   /\ cg'.chars = m.text
                            [] m.sig = "Pause" ->
                                   /\ engPc' = "wait"
                                   /\ cg' = cg
                            [] m.sig = "Resume" -> engPc' = "render"
                            [] OTHER -> engPc' = "done"
                 ELSE engPc' = "wait" /\ cg' = cg

\* C15: while the animation thread waits in rx.recv() (before its first
\* Resume, or paused) it renders nothing; NewMessage there only updates
\* CharGen, Pause is ignored, both leave it waiting; Resume alone starts
\* rendering and Stop ends the thread.
C15_BlockedRendersNothing == [][BlockedStep]_vars

\* paused after the first Resume, a newer NewMessage applied, still waiting
C15_Witness ==
    /\ engPc = "wait"
    /\ resumesTaken = 1
    /\ Len(nmAtResume) = 2
    /\ cg.chars = nmAtResume[2]
    /\ nmAtResume[2] # nmAtResume[1]
    /\ lastFrame.resume = 1

C17_SignalPattern ==
    /\ stream # "bad"
    /\ ctlPc = "sendPause" => stream \in {"idle", "paused"}
    /\ ctlPc \in {"dispatch", "sendNewMessage", "sendStop"} =>
           stream = "paused"
    /\ ctlPc = "sendResume" => stream = "message" /\ msg = <<>>
    /\ (ctlPc = "read" /\ keysRead > 0) =>
           IF key = "Enter" THEN stream = "idle" /\ msg = <<>>
           ELSE stream = "paused"
    /\ ctlPc \in {"join", "cleanup", "exited"} => stream = "stopped"

\* Enter, then Esc: Pause NewMessage Resume Pause Stop has been sent
C17_Witness ==
    /\ stream = "stopped"
    /\ Len(nmAtResume) = 1
    /\ ctlPc = "join"

\* C20: whenever the animation thread is about to try_recv while running,
\* the channel is empty or its first value is Pause, so the poll never
\* takes and drops a NewMessage, Resume or Stop.
C20_PollSeesOnlyPause ==
    /\ ~dropped
    /\ (engPc = "poll" /\ ~isFirst /\ chan # <<>>) =>
           Head(chan).sig = "Pause"

\* about to poll a Pause with a NewMessage and a Resume queued behind it
C20_Witness ==
    /\ engPc = "poll"
    /\ ~isFirst
    /\ Len(chan) >= 3
    /\ chan[1].sig = "Pause"
    /\ chan[2].sig = "NewMessage"
    /\ chan[3].sig = "Resume"
    /\ lastFrame # NoFrame

\* the cursor p stands at the end of the edge it is facing along
AtEdgeEnd(p) ==
    \/ p.direction = "Right" /\ p.x + 1 >= p.width
    \/ p.direction = "Down" /\ p.y + 1 >= p.height
    \/ p.direction = "Left" /\ p.x = 0
    \/ p.direction = "Up" /\ p.y = 0

\* the facing that follows d on a clockwise walk
TurnTo(d) ==
    CASE d = "Right" -> "Down"
      [] d = "Down" -> "Left"
      [] d = "Left" -> "Up"
      [] d = "Up" -> "Right"

\* a call of PositionGenerator::next that returned
NextReturned == Len(emitted') = Len(emitted) + 1

\* one cell from (x, y) facing d, in u16 arithmetic
Ahead(d, x, y) ==
    CASE d = "Right" -> <<(x + 1) % U16, y>>
      [] d = "Down" -> <<x, (y + 1) % U16>>
      [] d = "Left" -> <<(x - 1 + U16) % U16, y>>
      [] d = "Up" -> <<x, (y - 1 + U16) % U16>>

\* a returning call at the end of an edge changes facing only
TurnOnlyCall ==
    NextReturned =>
        IF AtEdgeEnd(pg)
        THEN /\ pg'.direction = TurnTo(pg.direction)
             /\ pg'.x = pg.x
             /\ pg'.y = pg.y
        ELSE /\ pg'.direction = pg.direction
             /\ <<pg'.x, pg'.y>> # <<pg.x, pg.y>>

\* C19 as stated: a PositionGenerator step at the end of an edge only
\* turns, leaving (x, y) unchanged; every call either moves the cursor by
\* one cell or changes facing, never both.
C19_TurnOnly == [][TurnOnlyCall]_vars

\* a returning call moves one cell; at the end of an edge it first turns
TurnAndMoveCall ==
    NextReturned =>
        LET d == IF AtEdgeEnd(pg) THEN TurnTo(pg.direction)
                 ELSE pg.direction
        IN  /\ pg'.direction = d
            /\ <<pg'.x, pg'.y>> = Ahead(d, pg.x, pg.y)
            /\ pg'.width = pg.width
            /\ pg'.height = pg.height
            /\ emitted'[Len(emitted')] = <<pg.x, pg.y>>

\* C19 amended: a PositionGenerator step at the end of an edge turns
\* clockwise and, in the same call, moves one cell in the new facing
\* (u16 arithmetic, no bounds check on that cell); every returning call
\* moves the cursor by exactly one cell and changes facing exactly when
\* it started at the end of an edge.
C19_TurnAndMove == [][TurnAndMoveCall]_vars

\* the call at the top right corner of a 3 wide rectangle has returned:
\* facing Down and already one cell below the corner
C19_Witness ==
    /\ pg.width = 3
    /\ pg.height >= 3
    /\ Len(emitted) = 3
    /\ emitted[3] = <<2, 0>>
    /\ pg.direction = "Down"
    /\ pg.x = 2
    /\ pg.y = 1

\* main has returned, with Ok or with the Err of a terminal write
Terminated == ctlPc \in {"exited", "failed"}

\* Esc has been read and no Enter was handled before it
EscBeforeEnter == key = "Esc" /\ lastNM = <<>>

\* C11: when Esc is pressed before any Enter, whatever was typed before,
\* the animation thread is still in its first wait when it receives Stop,
\* it returns Ok without having rendered a frame, and main's join returns
\* and the final cleanup clears the screen.
C11_EscBeforeEnter ==
    /\ [](EscBeforeEnter =>
              /\ lastFrame = NoFrame
              /\ resumesTaken = 0
              /\ engPc \in {"poll", "wait", "done"}
              /\ engPc = "poll" => isFirst
              /\ ctlPc \in {"cleanup", "exited"} => engPc = "done")
    /\ (EscBeforeEnter /\ ctlPc = "sendPause") ~> Terminated

\* a character and then Esc: thread ended, no frame, cleanup done
C11_Witness ==
    /\ EscBeforeEnter
    /\ firstKey \in KeyChars
    /\ ctlPc = "exited"
    /\ engPc = "done"
    /\ lastFrame = NoFrame

\* C13: whatever the animation thread is doing when Esc is pressed and
\* whatever is still in the channel, under fair scheduling the thread
\* takes the Stop and returns, main's join returns and main ends after the
\* cleanup; main is never blocked in join forever.
C13_StopTerminates ==
    /\ (key = "Esc" /\ ctlPc = "sendPause") ~> Terminated
    /\ (ctlPc = "join") ~> (ctlPc = "cleanup")
    /\ [](ctlPc \in {"join", "cleanup", "exited"} =>
              \/ engPc \in {"failed", "panicked"}
              \/ /\ stream = "stopped"
                 /\ ctlPc # "join" => (engPc = "done" /\ chan = <<>>))

\* main has ended after an Esc that found the animation paused behind a
\* character key, the thread having taken the Stop
C13_Witness ==
    /\ ctlPc = "exited"
    /\ engPc = "done"
    /\ keysRead = 3
    /\ firstKey = "Enter"
    /\ lastFrame # NoFrame
    /\ stream = "stopped"

\* with the receiver gone, a key is still handled as the match on code says
HandledAsUsual ==
    (EngineExited /\ ctlPc = "dispatch" /\ ctlPc' # "failed") =>
        LET inner == InnerWidth(termW).value
        IN  CASE key \in KeyChars ->
                    /\ msg' = PushChar(msg, key, inner)
                    /\ ctlPc' = "read"
              [] key = "Backspace" ->
                    /\ msg' = PopChar(msg)
                    /\ ctlPc' = "read"
              [] key = "Enter" -> ctlPc' = "sendNewMessage"
              [] key = "Esc" -> ctlPc' = "sendStop"
              [] OTHER ->
                    /\ msg' = PushOther(msg, DebugRepr(key), inner)
                    /\ ctlPc' = "read"

\* C18: a send that fails because the animation thread has already ended
\* is ignored: later keys are still handled (buffer update and redraw as
\* usual), and a later Esc still joins, cleans up and ends main.
C18_FailedSendIgnored ==
    /\ [](sendFailed => ctlPc # "panicked")
    /\ [][HandledAsUsual]_vars
    /\ (sendFailed /\ ctlPc = "dispatch") ~>
           (ctlPc \in {"read", "sendStop"} \/ Terminated)
    /\ (sendFailed /\ key = "Esc") ~> Terminated

\* the thread died on a write, a character was typed, Esc ended main
C18_Witness ==
    /\ sendFailed
    /\ engPc = "failed"
    /\ key = "Esc"
    /\ ctlPc = "exited"
    /\ keysRead = 3
    /\ msg # <<>>

====
